---- MODULE Spec2Model ----
(***************************************************************************)
(* Omniverse Market API: the two provider connectors (Kalshi, Polymarket), *)
(* their retry helper, and the HTTP route handlers that call them.         *)
(*                                                                         *)
(* Python values whose dynamic type or truthiness the code tests (None,    *)
(* str, dict, list) are tagged records [py |-> type, val |-> value].       *)
(* Market dicts are functions from key strings to values; a key missing    *)
(* from the dict is missing from the function's domain.  Money amounts are *)
(* in hundredths and prices in thousandths, so that all numbers are        *)
(* integers.                                                               *)
(***************************************************************************)
EXTENDS Integers, Sequences, FiniteSets, TLC

VARIABLES
    env,                   \* os.environ, the three credential variables
    kalshi_connector,      \* module -> KalshiConnector instance fields
    polymarket_connector,  \* module -> PolymarketConnector instance fields
    sample_file,           \* contents of data/sample_timeseries.json
    clock,                 \* datetime.utcnow(), in ticks
    request,               \* the request being served
    calls,                 \* connector methods called for this request, in order
    response,              \* the HTTP response of the request
    retry,                 \* the frame of one async_retry invocation
    normalize              \* the frame of one normalize_market invocation

vars == <<env, kalshi_connector, polymarket_connector, sample_file, clock,
          request, calls, response, retry, normalize>>

api_vars == <<env, kalshi_connector, polymarket_connector, sample_file, clock,
              request, calls, response, normalize>>

-----------------------------------------------------------------------------
(* Bounds of the model *)

MaxMarkets == 2        \* longest enumerated "markets" list of the sample file
MaxClock == 1          \* last tick of the clock
MaxRetriesBound == 4   \* largest max_retries argument enumerated
MaxBaseDelay == 2      \* largest base_delay argument enumerated

-----------------------------------------------------------------------------
(* Python values *)

PyNone == [py |-> "None"]
PyStr(s) == [py |-> "str", val |-> s]
PyInt(n) == [py |-> "int", val |-> n]
PyDict(d) == [py |-> "dict", val |-> d]
PyList(l) == [py |-> "list", val |-> l]

\* bool(v): None, "", 0, {} and [] are false
Truthy(v) ==
    CASE v.py = "None" -> FALSE
      [] v.py = "str"  -> v.val # ""
      [] v.py = "int"  -> v.val # 0
      [] v.py = "dict" -> DOMAIN v.val # {}
      [] v.py = "list" -> Len(v.val) # 0

\* dict.get(key, default)
Get(d, key, default) == IF key \in DOMAIN d THEN d[key] ELSE default

\* the empty dict {}
EmptyDict == [k \in {} |-> PyNone]

\* None where the other values of the position are plain strings
NoneStr == "<None>"

\* str.lower() on the strings the model uses
Lower(s) ==
    CASE s = "KALSHI" -> "kalshi"
      [] s = "Kalshi" -> "kalshi"
      [] s = "POLYMARKET" -> "polymarket"
      [] s = "PolyMarket" -> "polymarket"
      [] s = "OTHER" -> "other"
      [] s = "ACTIVE" -> "active"
      [] s = "Active" -> "active"
      [] s = "CLOSED" -> "closed"
      [] s = "Biden" -> "biden"
      [] s = "BITCOIN" -> "bitcoin"
      [] s = "Will Joe Biden win the 2024 US Presidential Election?"
            -> "will joe biden win the 2024 us presidential election?"
      [] s = "Will Bitcoin reach $100,000 by end of 2024?"
            -> "will bitcoin reach $100,000 by end of 2024?"
      [] s = "Will Apple stock reach $250 by end of 2024?"
            -> "will apple stock reach $250 by end of 2024?"
      [] s = "Will it rain tomorrow?" -> "will it rain tomorrow?"
      [] OTHER -> s

\* needle in hay, for the lower-cased strings the model uses
Contains(hay, needle) ==
    \/ needle = ""
    \/ needle = hay
    \/ <<hay, needle>> \in
            {<<"will joe biden win the 2024 us presidential election?", "biden">>,
             <<"will joe biden win the 2024 us presidential election?", "2024">>,
             <<"will bitcoin reach $100,000 by end of 2024?", "bitcoin">>,
             <<"will bitcoin reach $100,000 by end of 2024?", "2024">>,
             <<"will apple stock reach $250 by end of 2024?", "2024">>}

\* datetime.utcnow().isoformat() at tick t
IsoFormat(t) == "utc+" \o ToString(t)

-----------------------------------------------------------------------------
(* async_retry: src/ingestion/kalshi.py 44-54, src/ingestion/polymarket.py 35-45 *)

DefaultMaxRetries == 3
DefaultBaseDelay == 1

RECURSIVE Pow2(_)
Pow2(n) == IF n = 0 THEN 1 ELSE 2 * Pow2(n - 1)

\* variant: the delay grows linearly, base_delay * 2 * attempt
RetryDelayLinear(base_delay, attempt) == base_delay * 2 * attempt

\* delay = base_delay * (2**attempt)
RetryDelay(base_delay, attempt) == base_delay * Pow2(attempt)

\* variant: gives up one attempt early
IsLastAttemptEarly(attempt, max_retries) == attempt = max_retries - 2

\* variant: no attempt counts as the last one
IsLastAttemptNever(attempt, max_retries) == FALSE

\* if attempt == max_retries - 1: raise e
IsLastAttempt(attempt, max_retries) == attempt = max_retries - 1

\* what one call of func can do: return a value, raise an Exception, or raise a
\* BaseException that "except Exception" does not catch (e.g. CancelledError)
FuncOutcomes == {"return", "raise", "raise_base"}

RetryInit ==
    \E self \in {"kalshi", "polymarket"} :
    \E m \in 0..MaxRetriesBound :
    \E b \in 1..MaxBaseDelay :
        retry = [self |-> self, max_retries |-> m, base_delay |-> b,
                 pc |-> "loop", attempt |-> 0, calls |-> <<>>, sleeps |-> <<>>,
                 result |-> PyNone, raised |-> PyNone]

\* for attempt in range(max_retries): try: return await func() / except Exception
RetryAttempt ==
    /\ retry.pc = "loop"
    /\ retry.attempt < retry.max_retries
    /\ \E o \in FuncOutcomes :
        LET n == Len(retry.calls) + 1
            called == [retry EXCEPT !.calls = Append(@, o)]
        IN  \/ /\ o = "return"
               /\ retry' = [called EXCEPT !.pc = "returned", !.result = PyInt(n)]
            \/ /\ o = "raise_base"
               /\ retry' = [called EXCEPT !.pc = "raised", !.raised = PyInt(n)]
            \/ /\ o = "raise"
               /\ IsLastAttempt(retry.attempt, retry.max_retries)
               /\ retry' = [called EXCEPT !.pc = "raised", !.raised = PyInt(n)]
            \/ /\ o = "raise"
               /\ ~IsLastAttempt(retry.attempt, retry.max_retries)
               /\ retry' = [called EXCEPT !.pc = "sleeping",
                               !.sleeps = Append(@, RetryDelay(retry.base_delay, retry.attempt))]
    /\ UNCHANGED api_vars

\* await asyncio.sleep(delay) returns; the loop moves to the next attempt
RetryWake ==
    /\ retry.pc = "sleeping"
    /\ retry' = [retry EXCEPT !.pc = "loop", !.attempt = @ + 1]
    /\ UNCHANGED api_vars

\* range(max_retries) is exhausted without a return or a raise: the function
\* falls off its end and returns None
RetryExhausted ==
    /\ retry.pc = "loop"
    /\ retry.attempt >= retry.max_retries
    /\ retry' = [retry EXCEPT !.pc = "returned", !.result = PyNone]
    /\ UNCHANGED api_vars

RetryNext == RetryAttempt \/ RetryWake \/ RetryExhausted

-----------------------------------------------------------------------------
(* The sample dataset: data/sample_timeseries.json as src/data/gen_sample.py *)
(* writes it, the connectors' inline fallbacks, and other file contents     *)

Outcome(id, name, price, volume) ==
    [id |-> id, name |-> name, price |-> price, volume |-> volume]

\* generate_sample_markets(): the three markets of the generated file
GenKalshiPres ==
    [id |-> "KALSHI-PRES2024",
     title |-> "Will Joe Biden win the 2024 US Presidential Election?",
     description |-> "Market resolves to Yes if Joe Biden wins the 2024 presidential election",
     provider |-> "kalshi", status |-> "active", category |-> "politics",
     created_at |-> "2024-01-01T00:00:00Z", close_date |-> "2024-11-05T23:59:59Z",
     settle_date |-> "2024-11-06T12:00:00Z",
     outcomes |-> <<Outcome("yes", "Yes", 650, 1542050), Outcome("no", "No", 350, 893025)>>,
     total_volume |-> 2435075, liquidity |-> 542030]

GenPolyCrypto ==
    [id |-> "POLY-CRYPTO2024",
     title |-> "Will Bitcoin reach $100,000 by end of 2024?",
     description |-> "Market resolves to Yes if Bitcoin reaches $100,000 USD by December 31, 2024",
     provider |-> "polymarket", status |-> "active", category |-> "crypto",
     created_at |-> "2024-01-01T00:00:00Z", close_date |-> "2024-12-31T23:59:59Z",
     settle_date |-> "2025-01-01T12:00:00Z",
     outcomes |-> <<Outcome("yes", "Yes", 420, 2875080), Outcome("no", "No", 580, 1924060)>>,
     total_volume |-> 4799140, liquidity |-> 875020]

GenKalshiTech ==
    [id |-> "KALSHI-TECH2024",
     title |-> "Will Apple stock reach $250 by end of 2024?",
     description |-> "Market resolves to Yes if AAPL closes above $250 on any trading day in 2024",
     provider |-> "kalshi", status |-> "active", category |-> "stocks",
     created_at |-> "2024-01-15T00:00:00Z", close_date |-> "2024-12-31T21:00:00Z",
     settle_date |-> "2025-01-02T09:00:00Z",
     outcomes |-> <<Outcome("yes", "Yes", 730, 1289030), Outcome("no", "No", 270, 456070)>>,
     total_volume |-> 1745100, liquidity |-> 324080]

generate_sample_markets == <<PyDict(GenKalshiPres), PyDict(GenPolyCrypto), PyDict(GenKalshiTech)>>

\* the fallback dict of KalshiConnector._load_sample_data
KalshiFallback ==
    [markets |-> <<PyDict(
        [id |-> "KALSHI-PRES2024",
         title |-> "Will Joe Biden win the 2024 US Presidential Election?",
         description |-> "Market resolves to Yes if Joe Biden wins",
         provider |-> "kalshi", status |-> "active", category |-> "politics",
         created_at |-> "2024-01-01T00:00:00Z", close_date |-> "2024-11-05T23:59:59Z",
         outcomes |-> <<Outcome("yes", "Yes", 650, 1542050), Outcome("no", "No", 350, 893025)>>,
         total_volume |-> 2435075])>>]

\* the fallback dict of PolymarketConnector._load_sample_data
PolymarketFallback ==
    [markets |-> <<PyDict(
        [id |-> "POLY-CRYPTO2024",
         title |-> "Will Bitcoin reach $100,000 by end of 2024?",
         description |-> "Market resolves to Yes if Bitcoin reaches $100k",
         provider |-> "polymarket", status |-> "active", category |-> "crypto",
         created_at |-> "2024-01-01T00:00:00Z", close_date |-> "2024-12-31T23:59:59Z",
         outcomes |-> <<Outcome("yes", "Yes", 420, 2875080), Outcome("no", "No", 580, 1924060)>>,
         total_volume |-> 4799140])>>]

\* a record in Polymarket's own field names, tagged with a foreign provider
RawQuestion ==
    [id |-> "POLY-Q", question |-> "Will it rain tomorrow?", provider |-> "other",
     status |-> "CLOSED", tags |-> PyList(<<"weather", "daily">>),
     end_date |-> "2025-06-30T00:00:00Z",
     volume |-> 1200]

\* a record with no id, a null title and the other provider's tag in upper case
RawNoId ==
    [title |-> NoneStr, provider |-> "KALSHI", status |-> "Active", tags |-> PyList(<<>>)]

RawPool == {PyDict(GenKalshiPres), PyDict(RawQuestion), PyDict(RawNoId)}

RECURSIVE SeqsUpTo(_, _)
SeqsUpTo(S, n) ==
    IF n = 0 THEN {<<>>}
    ELSE LET shorter == SeqsUpTo(S, n - 1)
         IN  shorter \cup {Append(s, x) : s \in {t \in shorter : Len(t) = n - 1}, x \in S}

FileMissing == [state |-> "missing"]                \* open() raises FileNotFoundError
FileInvalid == [state |-> "invalid"]                \* json.load raises JSONDecodeError
FileJson(d) == [state |-> "json", data |-> d]       \* json.load returns the dict d

SampleFiles ==
    {FileMissing, FileInvalid,
     FileJson([version |-> "1.0.0"]),
     FileJson([markets |-> generate_sample_markets]),
     FileJson([markets |-> <<PyDict(GenKalshiPres), PyStr("not a market")>>])}
    \cup {FileJson([markets |-> s]) : s \in SeqsUpTo(RawPool, MaxMarkets)}

\* the outcome of a call: a returned value or a raised exception
Returned(v) == [ok |-> TRUE, val |-> v]
Raised(e) == [ok |-> FALSE, exc |-> e]

-----------------------------------------------------------------------------
(* What the two connectors' methods share line for line *)

\* sample_data.get("markets", [])
MarketsOf(sample_data) == Get(sample_data, "markets", <<>>)

\* a list comprehension: the list of the values, unless an element raised
Comprehension(outs) ==
    IF \E i \in DOMAIN outs : ~outs[i].ok
    THEN Raised("AttributeError")
    ELSE Returned([i \in DOMAIN outs |-> outs[i].val])

\* "except Exception as e: ... return []" of get_markets
OrEmptyList(out) == IF out.ok THEN out.val ELSE <<>>

\* the first index from i on of a market whose id equals market_id, 0 if none
RECURSIVE FirstWithId(_, _, _)
FirstWithId(markets, market_id, i) ==
    IF i > Len(markets) THEN 0
    ELSE IF markets[i]["id"] = market_id THEN i
    ELSE FirstWithId(markets, market_id, i + 1)

\* variant: the search starts at the second market
FindMarketSkipFirst(markets, market_id) ==
    IF FirstWithId(markets, market_id, 2) = 0 THEN PyNone
    ELSE PyDict(markets[FirstWithId(markets, market_id, 2)])

\* "for market in markets: if market["id"] == market_id: return market" /
\* "return None"
FindMarket(markets, market_id) ==
    IF FirstWithId(markets, market_id, 1) = 0 THEN PyNone
    ELSE PyDict(markets[FirstWithId(markets, market_id, 1)])

\* "if not market: return None", else the market's outcomes as its price
PriceOf(market, market_id, now) ==
    IF ~Truthy(market) THEN PyNone
    ELSE PyDict([market_id |-> market_id, timestamp |-> IsoFormat(now),
                 outcomes |-> Get(market.val, "outcomes", <<>>)])

\* variant: the offset is taken as days
HoursFromDays(now, hours) == [tick |-> now, hours |-> 24 * hours]

\* a timestamp "hours" whole hours away from tick "now" (timedelta arithmetic)
HoursFrom(now, hours) == [tick |-> now, hours |-> hours]

TimeseriesPoints == 24

-----------------------------------------------------------------------------
(* KalshiConnector: src/ingestion/kalshi.py *)

\* variant: a variable counts as set whenever it is defined, even if empty
KalshiConnectorDefined(environ) ==
    [base_url |-> "https://trading-api.kalshi.com/trade-api/v2",
     api_key |-> environ["KALSHI_API_KEY"], user_id |-> environ["KALSHI_USER_ID"],
     mock_mode |-> ~(environ["KALSHI_API_KEY"] # PyNone /\ environ["KALSHI_USER_ID"] # PyNone)]

\* __init__: reads the credentials, mock mode unless both are set
KalshiConnector(environ) ==
    [base_url |-> "https://trading-api.kalshi.com/trade-api/v2",
     api_key |-> environ["KALSHI_API_KEY"], user_id |-> environ["KALSHI_USER_ID"],
     mock_mode |-> ~(Truthy(environ["KALSHI_API_KEY"]) /\ Truthy(environ["KALSHI_USER_ID"]))]

\* variant: every failure of open/json.load falls back to the inline data
KalshiLoadSampleDataLenient(file) ==
    CASE file.state = "json" -> Returned(file.data)
      [] OTHER -> Returned(KalshiFallback)

\* _load_sample_data: the file's dict, the fallback when the file is missing;
\* any other error of open/json.load propagates
KalshiLoadSampleData(file) ==
    CASE file.state = "json" -> Returned(file.data)
      [] file.state = "missing" -> Returned(KalshiFallback)
      [] OTHER -> Raised("JSONDecodeError")

\* variant: the raw record's own provider value is kept
KalshiNormalizeKeepProvider(raw_market, now) ==
    IF raw_market.py # "dict" THEN Raised("AttributeError")
    ELSE Returned(
            [id |-> Get(raw_market.val, "id", ""),
             title |-> Get(raw_market.val, "title", ""),
             description |-> Get(raw_market.val, "description", ""),
             provider |-> Get(raw_market.val, "provider", "kalshi"),
             status |-> Get(raw_market.val, "status", "active"),
             category |-> Get(raw_market.val, "category", ""),
             created_at |-> Get(raw_market.val, "created_at", IsoFormat(now)),
             close_date |-> Get(raw_market.val, "close_date", NoneStr),
             settle_date |-> Get(raw_market.val, "settle_date", NoneStr),
             outcomes |-> Get(raw_market.val, "outcomes", <<>>),
             total_volume |-> Get(raw_market.val, "total_volume", 0),
             liquidity |-> Get(raw_market.val, "liquidity", 0)])

\* variant: created_at is always the time of the call
KalshiNormalizeStamped(raw_market, now) ==
    IF raw_market.py # "dict" THEN Raised("AttributeError")
    ELSE Returned(
            [id |-> Get(raw_market.val, "id", ""),
             title |-> Get(raw_market.val, "title", ""),
             description |-> Get(raw_market.val, "description", ""),
             provider |-> "kalshi",
             status |-> Get(raw_market.val, "status", "active"),
             category |-> Get(raw_market.val, "category", ""),
             created_at |-> IsoFormat(now),
             close_date |-> Get(raw_market.val, "close_date", NoneStr),
             settle_date |-> Get(raw_market.val, "settle_date", NoneStr),
             outcomes |-> Get(raw_market.val, "outcomes", <<>>),
             total_volume |-> Get(raw_market.val, "total_volume", 0),
             liquidity |-> Get(raw_market.val, "liquidity", 0)])

\* normalize_market: raw_market.get(...) raises AttributeError on a non-dict
KalshiNormalizeMarket(raw_market, now) ==
    IF raw_market.py # "dict" THEN Raised("AttributeError")
    ELSE Returned(
            [id |-> Get(raw_market.val, "id", ""),
             title |-> Get(raw_market.val, "title", ""),
             description |-> Get(raw_market.val, "description", ""),
             provider |-> "kalshi",
             status |-> Get(raw_market.val, "status", "active"),
             category |-> Get(raw_market.val, "category", ""),
             created_at |-> Get(raw_market.val, "created_at", IsoFormat(now)),
             close_date |-> Get(raw_market.val, "close_date", NoneStr),
             settle_date |-> Get(raw_market.val, "settle_date", NoneStr),
             outcomes |-> Get(raw_market.val, "outcomes", <<>>),
             total_volume |-> Get(raw_market.val, "total_volume", 0),
             liquidity |-> Get(raw_market.val, "liquidity", 0)])

\* sample_data = self._load_sample_data();
\* return [self.normalize_market(m) for m in sample_data.get("markets", [])]
KalshiServeSample(loaded, now) ==
    IF ~loaded.ok THEN loaded
    ELSE Comprehension([i \in 1..Len(MarketsOf(loaded.val)) |->
                            KalshiNormalizeMarket(MarketsOf(loaded.val)[i], now)])

\* variant: only the mock branch serves the sample data
KalshiGetMarketsMockOnly(self, file, now) ==
    OrEmptyList(IF self.mock_mode
                THEN KalshiServeSample(KalshiLoadSampleData(file), now)
                ELSE Returned(<<>>))

\* get_markets: both branches of "if self.mock_mode" serve the sample data;
\* every exception becomes the empty list
KalshiGetMarkets(self, file, now) ==
    OrEmptyList(IF self.mock_mode
                THEN KalshiServeSample(KalshiLoadSampleData(file), now)
                ELSE KalshiServeSample(KalshiLoadSampleData(file), now))

\* get_market: the first market with that id, else None
KalshiGetMarket(self, file, now, market_id) ==
    FindMarket(KalshiGetMarkets(self, file, now), market_id)

\* get_market_price: the market's outcomes, None without the market
KalshiGetMarketPrice(self, file, now, market_id) ==
    PriceOf(KalshiGetMarket(self, file, now, market_id), market_id, now)

\* variant: a sync that found no market reports an error
KalshiSyncDataStrict(self, file, now) ==
    [provider |-> "kalshi", markets_synced |-> Len(KalshiGetMarkets(self, file, now)),
     status |-> IF Len(KalshiGetMarkets(self, file, now)) = 0 THEN "error" ELSE "success",
     timestamp |-> IsoFormat(now)]

\* sync_data: counts get_markets; the except branch is unreachable because
\* get_markets raises nothing
KalshiSyncData(self, file, now) ==
    [provider |-> "kalshi", markets_synced |-> Len(KalshiGetMarkets(self, file, now)),
     status |-> "success", timestamp |-> IsoFormat(now)]

\* get_market_timeseries: 24 generated hourly points in mock mode, else None;
\* the price is 0.60 + i * 0.001, in thousandths, i = n - 1
KalshiGetMarketTimeseries(self, now, market_id, start, end, interval) ==
    IF self.mock_mode
    THEN PyDict([market_id |-> market_id, outcome_id |-> "yes", interval |-> interval,
                 data_points |->
                    [n \in 1..TimeseriesPoints |->
                        [timestamp |-> HoursFrom(now, -(23 - (n - 1))),
                         price |-> 600 + (n - 1) * 1,
                         volume |-> 100 + (n - 1) * 10]]])
    ELSE PyNone

\* get_market_orderbook: a fixed book in mock mode, else None
KalshiGetMarketOrderbook(self, now, market_id, depth) ==
    IF self.mock_mode
    THEN PyDict([market_id |-> market_id, outcome_id |-> "yes",
                 timestamp |-> IsoFormat(now),
                 bids |-> <<[price |-> 640, size |-> 100], [price |-> 630, size |-> 250]>>,
                 asks |-> <<[price |-> 660, size |-> 150], [price |-> 670, size |-> 200]>>,
                 spread |-> 20])
    ELSE PyNone

\* variant: the connector has no mock events
KalshiGetMarketEventsNone(self, now, market_id, since, limit) == PyList(<<>>)

\* get_market_events: one fixed trade event in mock mode, else the empty list
KalshiGetMarketEvents(self, now, market_id, since, limit) ==
    IF self.mock_mode
    THEN PyList(<<[id |-> "evt_kalshi_123", market_id |-> market_id,
                   event_type |-> "trade", timestamp |-> IsoFormat(now),
                   data |-> [outcome_id |-> "yes", price |-> 650, volume |-> 50,
                             side |-> "buy"]]>>)
    ELSE PyList(<<>>)

-----------------------------------------------------------------------------
(* PolymarketConnector: src/ingestion/polymarket.py *)

\* __init__: mock mode unless the API key is set
PolymarketConnector(environ) ==
    [base_url |-> "https://clob.polymarket.com", api_key |-> environ["POLYMARKET_API_KEY"],
     mock_mode |-> ~Truthy(environ["POLYMARKET_API_KEY"])]

PolymarketLoadSampleData(file) ==
    CASE file.state = "json" -> Returned(file.data)
      [] file.state = "missing" -> Returned(PolymarketFallback)
      [] OTHER -> Raised("JSONDecodeError")

\* s[0] of the non-empty strings the model uses as tags
FirstChar(s) == CASE s = "defi" -> "d"

\* raw_market.get("tags", [""])[0] if raw_market.get("tags") else "": tags[0]
\* raises TypeError on a number and KeyError on an object without the key 0
FirstTag(raw) ==
    IF ~Truthy(Get(raw, "tags", PyNone)) THEN Returned("")
    ELSE CASE raw["tags"].py = "list" -> Returned(raw["tags"].val[1])
           [] raw["tags"].py = "str" -> Returned(FirstChar(raw["tags"].val))
           [] raw["tags"].py = "int" -> Raised("TypeError")
           [] raw["tags"].py = "dict" -> Raised("KeyError")

\* variant: the second key of each pair is preferred to the first
PolymarketNormalizeSwapped(raw_market, now) ==
    IF raw_market.py # "dict" THEN Raised("AttributeError")
    ELSE IF ~FirstTag(raw_market.val).ok THEN FirstTag(raw_market.val)
    ELSE Returned(
            [id |-> Get(raw_market.val, "id", ""),
             title |-> Get(raw_market.val, "question", Get(raw_market.val, "title", "")),
             description |-> Get(raw_market.val, "description", ""),
             provider |-> "polymarket",
             status |-> Get(raw_market.val, "status", "active"),
             category |-> Get(raw_market.val, "category", FirstTag(raw_market.val).val),
             created_at |-> Get(raw_market.val, "created_at", IsoFormat(now)),
             close_date |-> Get(raw_market.val, "end_date",
                                Get(raw_market.val, "close_date", NoneStr)),
             settle_date |-> Get(raw_market.val, "settle_date", NoneStr),
             outcomes |-> Get(raw_market.val, "outcomes", <<>>),
             total_volume |-> Get(raw_market.val, "volume",
                                  Get(raw_market.val, "total_volume", 0)),
             liquidity |-> Get(raw_market.val, "liquidity", 0)])

\* normalize_market: title falls back to question, category to the first tag,
\* close_date to end_date, total_volume to volume; the default for category is
\* an argument of get, evaluated whether or not the record has a category
PolymarketNormalizeMarket(raw_market, now) ==
    IF raw_market.py # "dict" THEN Raised("AttributeError")
    ELSE IF ~FirstTag(raw_market.val).ok THEN FirstTag(raw_market.val)
    ELSE Returned(
            [id |-> Get(raw_market.val, "id", ""),
             title |-> Get(raw_market.val, "title", Get(raw_market.val, "question", "")),
             description |-> Get(raw_market.val, "description", ""),
             provider |-> "polymarket",
             status |-> Get(raw_market.val, "status", "active"),
             category |-> Get(raw_market.val, "category", FirstTag(raw_market.val).val),
             created_at |-> Get(raw_market.val, "created_at", IsoFormat(now)),
             close_date |-> Get(raw_market.val, "close_date",
                                Get(raw_market.val, "end_date", NoneStr)),
             settle_date |-> Get(raw_market.val, "settle_date", NoneStr),
             outcomes |-> Get(raw_market.val, "outcomes", <<>>),
             total_volume |-> Get(raw_market.val, "total_volume",
                                  Get(raw_market.val, "volume", 0)),
             liquidity |-> Get(raw_market.val, "liquidity", 0)])

PolymarketServeSample(loaded, now) ==
    IF ~loaded.ok THEN loaded
    ELSE Comprehension([i \in 1..Len(MarketsOf(loaded.val)) |->
                            PolymarketNormalizeMarket(MarketsOf(loaded.val)[i], now)])

PolymarketGetMarkets(self, file, now) ==
    OrEmptyList(IF self.mock_mode
                THEN PolymarketServeSample(PolymarketLoadSampleData(file), now)
                ELSE PolymarketServeSample(PolymarketLoadSampleData(file), now))

PolymarketGetMarket(self, file, now, market_id) ==
    FindMarket(PolymarketGetMarkets(self, file, now), market_id)

PolymarketGetMarketPrice(self, file, now, market_id) ==
    PriceOf(PolymarketGetMarket(self, file, now, market_id), market_id, now)

\* variant: a sync that found no market takes the except branch's result
PolymarketSyncDataStrict(self, file, now) ==
    [provider |-> "polymarket",
     markets_synced |-> Len(PolymarketGetMarkets(self, file, now)),
     status |-> IF Len(PolymarketGetMarkets(self, file, now)) = 0 THEN "error" ELSE "success",
     timestamp |-> IsoFormat(now)]

PolymarketSyncData(self, file, now) ==
    [provider |-> "polymarket",
     markets_synced |-> Len(PolymarketGetMarkets(self, file, now)),
     status |-> "success", timestamp |-> IsoFormat(now)]

\* the price is 0.42 + i * 0.002, in thousandths, i = n - 1
PolymarketGetMarketTimeseries(self, now, market_id, start, end, interval) ==
    IF self.mock_mode
    THEN PyDict([market_id |-> market_id, outcome_id |-> "yes", interval |-> interval,
                 data_points |->
                    [n \in 1..TimeseriesPoints |->
                        [timestamp |-> HoursFrom(now, -(23 - (n - 1))),
                         price |-> 420 + (n - 1) * 2,
                         volume |-> 150 + (n - 1) * 15]]])
    ELSE PyNone

PolymarketGetMarketOrderbook(self, now, market_id, depth) ==
    IF self.mock_mode
    THEN PyDict([market_id |-> market_id, outcome_id |-> "yes",
                 timestamp |-> IsoFormat(now),
                 bids |-> <<[price |-> 410, size |-> 200], [price |-> 400, size |-> 350]>>,
                 asks |-> <<[price |-> 430, size |-> 180], [price |-> 440, size |-> 220]>>,
                 spread |-> 20])
    ELSE PyNone

PolymarketGetMarketEvents(self, now, market_id, since, limit) ==
    IF self.mock_mode
    THEN PyList(<<[id |-> "evt_poly_456", market_id |-> market_id,
                   event_type |-> "trade", timestamp |-> IsoFormat(now),
                   data |-> [outcome_id |-> "yes", price |-> 420, volume |-> 75,
                             side |-> "sell"]]>>)
    ELSE PyList(<<>>)

-----------------------------------------------------------------------------
(* Route handlers: src/api/routes/markets.py, src/api/routes/ingest.py,     *)
(* src/api/main.py.  No connector method suspends (none reaches the network *)
(* or sleeps), so a handler runs from its first line to its response in one *)
(* step of the event loop.  A handler is modelled by its outcome "out" and  *)
(* by "calls", the connector methods it called, in order.                   *)

\* how a handler body ends
Return(v) == [kind |-> "return", value |-> v]
HTTPException(status_code, detail) ==
    [kind |-> "HTTPException", status_code |-> status_code, detail |-> detail]
OtherException(e) == [kind |-> "Exception", exc |-> e]

\* create_envelope of main.py, markets.py and ingest.py: meta or {}
create_envelope(data, ok, meta) ==
    [ok |-> ok, meta |-> IF Truthy(meta) THEN meta ELSE PyDict(EmptyDict), data |-> data]

\* variant: meta is passed through, without "or {}"
MarketsCreateEnvelopeNoDefault(data, ok, meta) ==
    [ok |-> ok, meta |-> meta, data |-> data]

MarketsCreateEnvelope(data, ok, meta) ==
    [ok |-> ok, meta |-> IF Truthy(meta) THEN meta ELSE PyDict(EmptyDict), data |-> data]

IngestCreateEnvelope(data, ok, meta) ==
    [ok |-> ok, meta |-> IF Truthy(meta) THEN meta ELSE PyDict(EmptyDict), data |-> data]

\* the detail of the HTTPException(500) each handler's "except Exception" raises;
\* provider is sync_provider_data's lower-cased path parameter
FailureDetail(endpoint, provider) ==
    CASE endpoint = "get_markets" -> "Failed to fetch markets"
      [] endpoint = "get_market" -> "Failed to fetch market"
      [] endpoint = "get_market_price" -> "Failed to fetch market price"
      [] endpoint = "get_market_timeseries" -> "Failed to fetch market timeseries"
      [] endpoint = "get_market_orderbook" -> "Failed to fetch market orderbook"
      [] endpoint = "get_market_events" -> "Failed to fetch market events"
      [] endpoint = "sync" -> "Failed to sync data for provider " \o provider

\* variant: the 500 carries str(e)
RouteCatchLeak(out, detail) ==
    CASE out.kind = "HTTPException" -> out
      [] out.kind = "Exception" -> HTTPException(500, out.exc)
      [] OTHER -> out

\* variant: without the "except HTTPException: raise" clause
CatchEverything(out, detail) ==
    CASE out.kind = "return" -> out
      [] OTHER -> HTTPException(500, detail)

\* "except HTTPException: raise / except Exception: raise HTTPException(500)"
RouteCatch(out, detail) ==
    CASE out.kind = "HTTPException" -> out
      [] out.kind = "Exception" -> HTTPException(500, detail)
      [] OTHER -> out

\* get_markets has the generic clause only, and HTTPException is an Exception
ListingCatch(out, detail) ==
    CASE out.kind = "HTTPException" -> HTTPException(500, detail)
      [] out.kind = "Exception" -> HTTPException(500, detail)
      [] OTHER -> out

\* the except clauses of the handler of an endpoint, applied to the way its
\* try body ended
HandlerExcept(endpoint, out, provider) ==
    IF endpoint = "get_markets"
    THEN ListingCatch(out, FailureDetail(endpoint, provider))
    ELSE RouteCatch(out, FailureDetail(endpoint, provider))

\* variant: no custom 404 handler, every HTTPException gets the default body
RenderDefault(out) ==
    CASE out.kind = "return" -> [status |-> 200, body |-> out.value]
      [] OTHER -> [status |-> out.status_code, body |-> [detail |-> out.detail]]

\* the application turns the handler's outcome into the HTTP response; 404 goes
\* through not_found_handler, other HTTPExceptions get the default detail body
Render(out) ==
    CASE out.kind = "return" -> [status |-> 200, body |-> out.value]
      [] out.kind = "HTTPException" /\ out.status_code = 404 ->
            [status |-> 404,
             body |-> create_envelope(PyNone, FALSE, PyDict([error |-> "Resource not found"]))]
      [] OTHER -> [status |-> out.status_code, body |-> [detail |-> out.detail]]

Call(connector, method) == [connector |-> connector, method |-> method]

\* a path that matches no route: the router raises HTTPException(404)
NoRoute == [calls |-> <<>>, out |-> HTTPException(404, "Not Found")]

\* health_check
HealthCheck ==
    [calls |-> <<>>,
     out |-> Return(create_envelope(
                PyDict([status |-> "healthy", service |-> "omniverse-market-api"]), TRUE,
                PyDict([timestamp |-> "2024-01-01T00:00:00Z"])))]

\* "if not provider or provider.lower() == name"
FetchesFrom(provider, name) ==
    IF ~Truthy(provider) THEN TRUE ELSE Lower(provider.val) = name

\* variant: the Polymarket records are put first
FetchMarketsPolymarketFirst(kc, pmc, file, now, provider) ==
    (IF FetchesFrom(provider, "polymarket") THEN PolymarketGetMarkets(pmc, file, now)
     ELSE <<>>)
    \o (IF FetchesFrom(provider, "kalshi") THEN KalshiGetMarkets(kc, file, now) ELSE <<>>)

\* markets = []; markets.extend(kalshi_markets); markets.extend(polymarket_markets)
FetchMarkets(kc, pmc, file, now, provider) ==
    (IF FetchesFrom(provider, "kalshi") THEN KalshiGetMarkets(kc, file, now) ELSE <<>>)
    \o (IF FetchesFrom(provider, "polymarket") THEN PolymarketGetMarkets(pmc, file, now)
        ELSE <<>>)

FetchCalls(provider) ==
    (IF FetchesFrom(provider, "kalshi") THEN <<Call("kalshi", "get_markets")>> ELSE <<>>)
    \o (IF FetchesFrom(provider, "polymarket") THEN <<Call("polymarket", "get_markets")>>
        ELSE <<>>)

\* m.get("status", "").lower() == status.lower()
StatusMatches(m, status) == Lower(Get(m, "status", "")) = Lower(status)

\* q.lower() in m.get("title", "").lower()
TitleMatches(m, q) == Contains(Lower(Get(m, "title", "")), Lower(q))

\* "if status: markets = [m for m in markets if ...]"; None.lower() raises
FilterStatus(markets, status) ==
    IF ~Truthy(status) THEN Returned(markets)
    ELSE IF \E i \in 1..Len(markets) : Get(markets[i], "status", "") = NoneStr
    THEN Raised("AttributeError")
    ELSE Returned(SelectSeq(markets, LAMBDA m : StatusMatches(m, status.val)))

\* "if q: markets = [m for m in markets if ...]", reached if nothing raised
FilterQuery(filtered, q) ==
    IF ~filtered.ok THEN filtered
    ELSE IF ~Truthy(q) THEN filtered
    ELSE IF \E i \in 1..Len(filtered.val) : Get(filtered.val[i], "title", "") = NoneStr
    THEN Raised("AttributeError")
    ELSE Returned(SelectSeq(filtered.val, LAMBDA m : TitleMatches(m, q.val)))

\* meta of the listing
ListingMeta(markets, provider) ==
    [total |-> Len(markets),
     providers |-> IF ~Truthy(provider) THEN <<"kalshi", "polymarket">> ELSE <<provider.val>>]

ListingBody(result, provider) ==
    IF ~result.ok THEN OtherException(result.exc)
    ELSE Return(MarketsCreateEnvelope(PyList(result.val), TRUE,
                    PyDict(ListingMeta(result.val, provider))))

\* GET /markets
GetMarkets(kc, pmc, file, now, provider, status, q) ==
    [calls |-> FetchCalls(provider),
     out |-> ListingCatch(
                ListingBody(FilterQuery(FilterStatus(FetchMarkets(kc, pmc, file, now, provider),
                                                     status), q),
                            provider),
                FailureDetail("get_markets", ""))]

\* variant: Polymarket is asked whatever Kalshi returned
AlwaysFallback(result) == TRUE

\* "if not market:" after the Kalshi call: Polymarket is tried
NeedsFallback(result) == ~Truthy(result)

\* variant: the handler never raises the 404
NeverMissing(result) == FALSE

\* "if not market: raise HTTPException(404)" after both
IsMissing(result) == ~Truthy(result)

\* x = await kalshi_connector.f(...); if not x: x = await polymarket_connector.f(...)
\* (second stands for the Polymarket call, which is made only on the fallback)
FirstOrFallback(first, second) == IF NeedsFallback(first) THEN second ELSE first

LookupCalls(first, method) ==
    <<Call("kalshi", method)>>
    \o (IF NeedsFallback(first) THEN <<Call("polymarket", method)>> ELSE <<>>)

\* if not x: raise HTTPException(404, ...); return create_envelope(data=x, meta=...)
LookupBody(found, detail, meta) ==
    IF IsMissing(found) THEN HTTPException(404, detail)
    ELSE Return(MarketsCreateEnvelope(found, TRUE, PyDict(meta)))

\* GET /markets/{market_id}
GetMarket(kc, pmc, file, now, market_id) ==
    [calls |-> LookupCalls(KalshiGetMarket(kc, file, now, market_id), "get_market"),
     out |-> RouteCatch(
                LookupBody(FirstOrFallback(KalshiGetMarket(kc, file, now, market_id),
                                           PolymarketGetMarket(pmc, file, now, market_id)),
                           "Market not found",
                           [market_id |-> market_id]),
                FailureDetail("get_market", ""))]

\* GET /markets/{market_id}/price
GetMarketPrice(kc, pmc, file, now, market_id) ==
    [calls |-> LookupCalls(KalshiGetMarketPrice(kc, file, now, market_id), "get_market_price"),
     out |-> RouteCatch(
                LookupBody(FirstOrFallback(KalshiGetMarketPrice(kc, file, now, market_id),
                                           PolymarketGetMarketPrice(pmc, file, now, market_id)),
                           "Market price not found",
                           [market_id |-> market_id, timestamp |-> IsoFormat(now)]),
                FailureDetail("get_market_price", ""))]

\* Query(default): the parameter's value, the default when the request has none
QueryParam(given, default) == IF given.py = "None" THEN default ELSE given.val

DefaultInterval == "1h"
DefaultDepth == 10
DefaultLimit == 100

TimeseriesMeta(market_id, interval, start, end) ==
    [market_id |-> market_id, interval |-> interval, start |-> start, end |-> end]

\* variant: meta reports the default depth, not the requested one
OrderbookMetaDefault(market_id, depth, now) ==
    [market_id |-> market_id, depth |-> 10, timestamp |-> IsoFormat(now)]

OrderbookMeta(market_id, depth, now) ==
    [market_id |-> market_id, depth |-> depth, timestamp |-> IsoFormat(now)]

\* "count": len(events) if isinstance(events, list) else 0
EventsMeta(market_id, since, limit, events) ==
    [market_id |-> market_id, since |-> since, limit |-> limit,
     count |-> IF events.py = "list" THEN Len(events.val) ELSE 0]

\* GET /markets/{market_id}/timeseries
GetMarketTimeseries(kc, pmc, now, market_id, start, end, interval) ==
    [calls |-> LookupCalls(KalshiGetMarketTimeseries(kc, now, market_id, start, end, interval),
                           "get_market_timeseries"),
     out |-> RouteCatch(
                LookupBody(
                    FirstOrFallback(
                        KalshiGetMarketTimeseries(kc, now, market_id, start, end, interval),
                        PolymarketGetMarketTimeseries(pmc, now, market_id, start, end, interval)),
                    "Market timeseries not found",
                    TimeseriesMeta(market_id, interval, start, end)),
                FailureDetail("get_market_timeseries", ""))]

\* GET /markets/{market_id}/orderbook
GetMarketOrderbook(kc, pmc, now, market_id, depth) ==
    [calls |-> LookupCalls(KalshiGetMarketOrderbook(kc, now, market_id, depth),
                           "get_market_orderbook"),
     out |-> RouteCatch(
                LookupBody(
                    FirstOrFallback(KalshiGetMarketOrderbook(kc, now, market_id, depth),
                                    PolymarketGetMarketOrderbook(pmc, now, market_id, depth)),
                    "Market orderbook not found",
                    OrderbookMeta(market_id, depth, now)),
                FailureDetail("get_market_orderbook", ""))]

\* events after the fallback
EventsFound(kc, pmc, now, market_id, since, limit) ==
    FirstOrFallback(KalshiGetMarketEvents(kc, now, market_id, since, limit),
                    PolymarketGetMarketEvents(pmc, now, market_id, since, limit))

\* GET /markets/{market_id}/events
GetMarketEvents(kc, pmc, now, market_id, since, limit) ==
    [calls |-> LookupCalls(KalshiGetMarketEvents(kc, now, market_id, since, limit),
                           "get_market_events"),
     out |-> RouteCatch(
                LookupBody(EventsFound(kc, pmc, now, market_id, since, limit),
                           "Market events not found",
                           EventsMeta(market_id, since, limit,
                                      EventsFound(kc, pmc, now, market_id, since, limit))),
                FailureDetail("get_market_events", ""))]

\* variant: the provider is compared as given, without lower()
SyncTargetCaseSensitive(provider) ==
    CASE provider = "kalshi" -> "kalshi"
      [] provider = "polymarket" -> "polymarket"
      [] OTHER -> "unknown"

\* the branch sync_provider_data takes after provider = provider.lower()
SyncTarget(provider) ==
    CASE Lower(provider) = "kalshi" -> "kalshi"
      [] Lower(provider) = "polymarket" -> "polymarket"
      [] OTHER -> "unknown"

SyncMeta(provider, now) ==
    [provider |-> provider, sync_timestamp |-> IsoFormat(now), status |-> "completed"]

SyncCalls(target) ==
    IF target = "unknown" THEN <<>> ELSE <<Call(target, "sync_data")>>

SyncBody(kc, pmc, file, now, provider, target) ==
    CASE target = "kalshi" ->
            Return(IngestCreateEnvelope(PyDict(KalshiSyncData(kc, file, now)), TRUE,
                        PyDict(SyncMeta(provider, now))))
      [] target = "polymarket" ->
            Return(IngestCreateEnvelope(PyDict(PolymarketSyncData(pmc, file, now)), TRUE,
                        PyDict(SyncMeta(provider, now))))
      [] OTHER ->
            HTTPException(400, "Unknown provider: " \o provider
                                   \o ". Supported: kalshi, polymarket")

\* POST /ingest/{provider}/sync
SyncProviderData(kc, pmc, file, now, provider) ==
    [calls |-> SyncCalls(SyncTarget(provider)),
     out |-> RouteCatch(SyncBody(kc, pmc, file, now, Lower(provider), SyncTarget(provider)),
                        FailureDetail("sync", Lower(provider)))]

-----------------------------------------------------------------------------
(* Requests *)

EnvValues == {PyNone, PyStr(""), PyStr("secret")}

MarketIds == {"KALSHI-PRES2024", "POLY-CRYPTO2024", "KALSHI-TECH2024", "POLY-Q", "NONEXISTENT"}

ProviderParams == {PyNone, PyStr(""), PyStr("kalshi"), PyStr("KALSHI"),
                   PyStr("polymarket"), PyStr("PolyMarket"), PyStr("other")}
StatusParams == {PyNone, PyStr("active"), PyStr("CLOSED")}
QueryParams == {PyNone, PyStr("Biden")}
IntervalParams == {PyNone, PyStr("1h"), PyStr("1d"), PyStr("")}
\* the mock series, books and events do not depend on the id: an id of each
\* connector's fallback data and an unknown one suffice
MockIds == {"KALSHI-PRES2024", "POLY-CRYPTO2024", "NONEXISTENT"}
DepthParams == {PyNone, PyInt(5), PyInt(0)}
LimitParams == {PyNone, PyInt(50), PyInt(0)}
UnroutedPaths == {"/api/v1/nonexistent", "/"}
SyncProviders == {"kalshi", "Kalshi", "polymarket", "POLYMARKET", "invalid", "OTHER"}

NoRequest == [endpoint |-> "none"]
NoResponse == [status |-> 0]

\* the handler's result becomes the state of the finished request
\* variant: serving a request leaves a mark on the markets module's Kalshi
\* connector (as a connector that switched modes after its first call would)
ServeMarking(req, handled) ==
    /\ request = NoRequest
    /\ request' = req
    /\ calls' = handled.calls
    /\ response' = Render(handled.out)
    /\ kalshi_connector' = [kalshi_connector EXCEPT !["markets"].mock_mode = FALSE]
    /\ UNCHANGED <<env, polymarket_connector, sample_file, clock, retry, normalize>>

Serve(req, handled) ==
    /\ request = NoRequest
    /\ request' = req
    /\ calls' = handled.calls
    /\ response' = Render(handled.out)
    /\ UNCHANGED <<env, kalshi_connector, polymarket_connector, sample_file, clock, retry,
                   normalize>>

ReqHealth == Serve([endpoint |-> "health"], HealthCheck)

ReqGetMarkets ==
    \E provider \in ProviderParams, status \in StatusParams, q \in QueryParams :
        Serve([endpoint |-> "get_markets", provider |-> provider, status |-> status, q |-> q],
              GetMarkets(kalshi_connector["markets"], polymarket_connector["markets"],
                         sample_file, clock, provider, status, q))

ReqGetMarket ==
    \E market_id \in MarketIds :
        Serve([endpoint |-> "get_market", market_id |-> market_id],
              GetMarket(kalshi_connector["markets"], polymarket_connector["markets"],
                        sample_file, clock, market_id))

ReqGetMarketPrice ==
    \E market_id \in MarketIds :
        Serve([endpoint |-> "get_market_price", market_id |-> market_id],
              GetMarketPrice(kalshi_connector["markets"], polymarket_connector["markets"],
                             sample_file, clock, market_id))

ReqGetMarketTimeseries ==
    \E market_id \in MockIds, interval \in IntervalParams :
        Serve([endpoint |-> "get_market_timeseries", market_id |-> market_id,
               interval |-> interval, start |-> PyNone, end |-> PyNone],
              GetMarketTimeseries(kalshi_connector["markets"], polymarket_connector["markets"],
                                  clock, market_id, PyNone, PyNone,
                                  QueryParam(interval, DefaultInterval)))

ReqGetMarketOrderbook ==
    \E market_id \in MockIds, depth \in DepthParams :
        Serve([endpoint |-> "get_market_orderbook", market_id |-> market_id, depth |-> depth],
              GetMarketOrderbook(kalshi_connector["markets"], polymarket_connector["markets"],
                                 clock, market_id, QueryParam(depth, DefaultDepth)))

ReqGetMarketEvents ==
    \E market_id \in MockIds, limit \in LimitParams :
        Serve([endpoint |-> "get_market_events", market_id |-> market_id,
               since |-> PyNone, limit |-> limit],
              GetMarketEvents(kalshi_connector["markets"], polymarket_connector["markets"],
                              clock, market_id, PyNone, QueryParam(limit, DefaultLimit)))

ReqSync ==
    \E provider \in SyncProviders :
        Serve([endpoint |-> "sync", provider |-> provider],
              SyncProviderData(kalshi_connector["ingest"], polymarket_connector["ingest"],
                               sample_file, clock, provider))

ReqUnrouted ==
    \E path \in UnroutedPaths :
        Serve([endpoint |-> "unrouted", path |-> path], NoRoute)

\* the response has been sent; the next request can be served
Complete ==
    /\ request # NoRequest
    /\ request' = NoRequest
    /\ calls' = <<>>
    /\ response' = NoResponse
    /\ UNCHANGED <<env, kalshi_connector, polymarket_connector, sample_file, clock, retry,
                   normalize>>

\* time passes
Tick ==
    /\ clock < MaxClock
    /\ clock' = clock + 1
    /\ UNCHANGED <<env, kalshi_connector, polymarket_connector, sample_file,
                   request, calls, response, retry, normalize>>

NormalizeIdle == [self |-> "none", raw_market |-> PyNone, pc |-> "idle", result |-> PyNone]

RetryIdle ==
    [self |-> "kalshi", max_retries |-> DefaultMaxRetries, base_delay |-> DefaultBaseDelay,
     pc |-> "loop", attempt |-> 0, calls |-> <<>>, sleeps |-> <<>>,
     result |-> PyNone, raised |-> PyNone]

\* the modules are imported: the environment is read once, by the constructors
Init ==
    /\ env \in [{"KALSHI_API_KEY", "KALSHI_USER_ID", "POLYMARKET_API_KEY"} -> EnvValues]
    /\ kalshi_connector = [module \in {"markets", "ingest"} |-> KalshiConnector(env)]
    /\ polymarket_connector = [module \in {"markets", "ingest"} |-> PolymarketConnector(env)]
    /\ sample_file \in SampleFiles
    /\ clock = 0
    /\ request = NoRequest
    /\ calls = <<>>
    /\ response = NoResponse
    /\ retry = RetryIdle
    /\ normalize = NormalizeIdle

Next ==
    \/ ReqHealth
    \/ ReqGetMarkets
    \/ ReqGetMarket
    \/ ReqGetMarketPrice
    \/ ReqGetMarketTimeseries
    \/ ReqGetMarketOrderbook
    \/ ReqGetMarketEvents
    \/ ReqSync
    \/ ReqUnrouted
    \/ Complete
    \/ Tick

Spec == Init /\ [][Next]_vars

\* async_retry on its own: the arguments are drawn, the application is idle
InitRetry ==
    /\ env = [k \in {"KALSHI_API_KEY", "KALSHI_USER_ID", "POLYMARKET_API_KEY"} |-> PyStr("secret")]
    /\ kalshi_connector = [module \in {"markets", "ingest"} |-> KalshiConnector(env)]
    /\ polymarket_connector = [module \in {"markets", "ingest"} |-> PolymarketConnector(env)]
    /\ sample_file = FileJson([markets |-> generate_sample_markets])
    /\ clock = 0
    /\ request = NoRequest
    /\ calls = <<>>
    /\ response = NoResponse
    /\ normalize = NormalizeIdle
    /\ RetryInit

SpecRetry == InitRetry /\ [][RetryNext]_vars

\* the event loop resumes the coroutine once the awaited func() or sleep is done
SpecRetryFair == InitRetry /\ [][RetryNext]_vars /\ WF_vars(RetryNext)

-----------------------------------------------------------------------------
(* normalize_market on its own: a raw record is drawn, with each of the keys *)
(* that have a fallback present or absent, and a connector normalizes it     *)

FallbackKeys ==
    {"title", "question", "close_date", "end_date", "total_volume", "volume",
     "category", "tags"}

\* the value a raw record has under a key; title may be null, tags may be empty
RawValue(key, title, tags) ==
    CASE key = "title" -> title
      [] key = "question" -> "Will ETH flip BTC?"
      [] key = "close_date" -> "2024-12-31T23:59:59Z"
      [] key = "end_date" -> "2025-01-31T00:00:00Z"
      [] key = "total_volume" -> 700
      [] key = "volume" -> 900
      [] key = "category" -> "crypto"
      [] key = "tags" -> tags

RawRecords ==
    {[key \in present |-> RawValue(key, title, tags)] :
        present \in SUBSET FallbackKeys,
        title \in {"Will ETH flip BTC by 2025?", NoneStr},
        tags \in {PyList(<<>>), PyList(<<"defi", "eth">>)}}

NormalizeInit ==
    \E self \in {"kalshi", "polymarket"} :
    \E raw_market \in {PyDict(r) : r \in RawRecords} \cup {PyStr("not a market")} :
        normalize = [self |-> self, raw_market |-> raw_market, pc |-> "called",
                     result |-> PyNone]

NormalizeKalshi ==
    /\ normalize.pc = "called"
    /\ normalize.self = "kalshi"
    /\ normalize' = [normalize EXCEPT !.pc = "done",
                        !.result = KalshiNormalizeMarket(normalize.raw_market, clock)]
    /\ UNCHANGED <<env, kalshi_connector, polymarket_connector, sample_file, clock,
                   request, calls, response, retry>>

NormalizePolymarket ==
    /\ normalize.pc = "called"
    /\ normalize.self = "polymarket"
    /\ normalize' = [normalize EXCEPT !.pc = "done",
                        !.result = PolymarketNormalizeMarket(normalize.raw_market, clock)]
    /\ UNCHANGED <<env, kalshi_connector, polymarket_connector, sample_file, clock,
                   request, calls, response, retry>>

InitNormalize ==
    /\ env = [k \in {"KALSHI_API_KEY", "KALSHI_USER_ID", "POLYMARKET_API_KEY"} |-> PyStr("")]
    /\ kalshi_connector = [module \in {"markets", "ingest"} |-> KalshiConnector(env)]
    /\ polymarket_connector = [module \in {"markets", "ingest"} |-> PolymarketConnector(env)]
    /\ sample_file = FileJson([markets |-> generate_sample_markets])
    /\ clock = 0
    /\ request = NoRequest
    /\ calls = <<>>
    /\ response = NoResponse
    /\ retry = RetryIdle
    /\ NormalizeInit

NextNormalize == NormalizeKalshi \/ NormalizePolymarket

SpecNormalize == InitNormalize /\ [][NextNormalize]_vars

-----------------------------------------------------------------------------
(* normalize_market applied to its own result: a raw record is drawn, with  *)
(* any subset of some keys and a tags value of any JSON type; the connector *)
(* normalizes it and, later, normalizes the result                          *)

RenormalizeKeys == {"id", "title", "question", "created_at", "category", "tags"}

\* JSON values a record can have under "tags"
TagsValues ==
    {PyList(<<>>), PyList(<<"defi", "eth">>), PyStr("defi"), PyInt(7),
     PyDict([k |-> "v"])}

RenormalizeValue(key, tags) ==
    CASE key = "id" -> "POLY-ETH"
      [] key = "title" -> "Will ETH flip BTC by 2025?"
      [] key = "question" -> "Will ETH flip BTC?"
      [] key = "created_at" -> "2024-01-01T00:00:00Z"
      [] key = "category" -> "crypto"
      [] key = "tags" -> tags

RenormalizeRecords ==
    {[key \in present |-> RenormalizeValue(key, tags)] :
        present \in SUBSET RenormalizeKeys, tags \in TagsValues}

RenormalizeInit ==
    \E self \in {"kalshi", "polymarket"} :
    \E raw_market \in {PyDict(r) : r \in RenormalizeRecords} :
        normalize = [self |-> self, raw_market |-> raw_market, pc |-> "called",
                     result |-> PyNone, again |-> PyNone]

\* self.normalize_market(result) on the record the first call returned
NormalizeAgain ==
    /\ normalize.pc = "done"
    /\ normalize.result.ok
    /\ normalize' = [normalize EXCEPT !.pc = "again",
                        !.again = IF normalize.self = "kalshi"
                                  THEN KalshiNormalizeMarket(PyDict(normalize.result.val), clock)
                                  ELSE PolymarketNormalizeMarket(PyDict(normalize.result.val),
                                                                 clock)]
    /\ UNCHANGED <<env, kalshi_connector, polymarket_connector, sample_file, clock,
                   request, calls, response, retry>>

InitRenormalize ==
    /\ env = [k \in {"KALSHI_API_KEY", "KALSHI_USER_ID", "POLYMARKET_API_KEY"} |-> PyStr("")]
    /\ kalshi_connector = [module \in {"markets", "ingest"} |-> KalshiConnector(env)]
    /\ polymarket_connector = [module \in {"markets", "ingest"} |-> PolymarketConnector(env)]
    /\ sample_file = FileJson([markets |-> generate_sample_markets])
    /\ clock = 0
    /\ request = NoRequest
    /\ calls = <<>>
    /\ response = NoResponse
    /\ retry = RetryIdle
    /\ RenormalizeInit

NextRenormalize == NormalizeKalshi \/ NormalizePolymarket \/ NormalizeAgain \/ Tick

SpecRenormalize == InitRenormalize /\ [][NextRenormalize]_vars

-----------------------------------------------------------------------------
(* The handlers' except clauses on their own: the try body of a handler ends *)
(* in each way a body can end, and the clauses and the application answer    *)

Endpoints ==
    {"get_markets", "get_market", "get_market_price", "get_market_timeseries",
     "get_market_orderbook", "get_market_events", "sync"}

\* str(e) of exceptions that are not HTTPException
ExceptionTexts ==
    {"'NoneType' object has no attribute 'lower'", "list index out of range",
     "Expecting value: line 1 column 1 (char 0)", "maximum recursion depth exceeded",
     "boom"}

\* the ways the try body of the handler can end: it returns its envelope,
\* raises its own HTTPException, or something in it raises another exception
\* (the sync handler raises its 400 before anything else can fail)
TryBodies(endpoint, provider) ==
    CASE endpoint = "get_markets" ->
            {Return(MarketsCreateEnvelope(PyList(<<>>), TRUE, PyNone))}
            \cup {OtherException(e) : e \in ExceptionTexts}
      [] endpoint = "sync" /\ SyncTarget(provider) = "unknown" ->
            {SyncBody(PyNone, PyNone, FileMissing, 0, Lower(provider), "unknown")}
      [] endpoint = "sync" ->
            {Return(IngestCreateEnvelope(PyNone, TRUE, PyNone))}
            \cup {OtherException(e) : e \in ExceptionTexts}
      [] OTHER ->
            {Return(MarketsCreateEnvelope(PyNone, TRUE, PyNone)),
             LookupBody(PyNone, "Market not found", EmptyDict)}
            \cup {OtherException(e) : e \in ExceptionTexts}

ExceptServe ==
    \E endpoint \in Endpoints :
    \E provider \in (IF endpoint = "sync" THEN SyncProviders ELSE {""}) :
    \E body \in TryBodies(endpoint, provider) :
        Serve([endpoint |-> endpoint, provider |-> provider, body |-> body],
              [calls |-> <<>>, out |-> HandlerExcept(endpoint, body, Lower(provider))])

\* the test environment: empty credentials, the generated sample file
InitExcept ==
    /\ env = [k \in {"KALSHI_API_KEY", "KALSHI_USER_ID", "POLYMARKET_API_KEY"} |-> PyStr("")]
    /\ kalshi_connector = [module \in {"markets", "ingest"} |-> KalshiConnector(env)]
    /\ polymarket_connector = [module \in {"markets", "ingest"} |-> PolymarketConnector(env)]
    /\ sample_file = FileJson([markets |-> generate_sample_markets])
    /\ clock = 0
    /\ request = NoRequest
    /\ calls = <<>>
    /\ response = NoResponse
    /\ retry = RetryIdle
    /\ normalize = NormalizeIdle

NextExcept == ExceptServe \/ Complete \/ Tick

SpecExcept == InitExcept /\ [][NextExcept]_vars

-----------------------------------------------------------------------------
(* Properties of async_retry, checked under SpecRetry *)

\* C1: with the defaults (max_retries = 3, base_delay = 1.0) func is called at
\* most 3 times; the failed attempts 0 and 1 are each followed by a sleep, of
\* 1.0 and then 2.0, before the next attempt; a failing third attempt ends
\* async_retry with that attempt's exception.
C1_RetryDefaults ==
    (retry.max_retries = DefaultMaxRetries /\ retry.base_delay = DefaultBaseDelay) =>
        /\ Len(retry.calls) <= 3
        /\ Len(retry.sleeps) <= 2
        /\ \A k \in 1..Len(retry.sleeps) : retry.sleeps[k] = (IF k = 1 THEN 1 ELSE 2)
        /\ \A k \in {1, 2} :
              (Len(retry.calls) >= k /\ retry.calls[k] = "raise") => Len(retry.sleeps) >= k
        /\ Len(retry.calls) >= 1 => Len(retry.sleeps) >= Len(retry.calls) - 1
        /\ (Len(retry.calls) = 3 /\ retry.calls[3] = "raise") =>
              (retry.pc = "raised" /\ retry.raised = PyInt(3))

C1_Witness ==
    /\ retry.max_retries = 3
    /\ retry.base_delay = 1
    /\ retry.calls = <<"raise", "raise", "raise">>
    /\ retry.sleeps = <<1, 2>>
    /\ retry.pc = "raised"

\* C2: when func fails on its first two calls and succeeds on the third,
\* async_retry (3 attempts or more) does not give up after the second failure
\* and returns the third call's value after exactly 3 calls and 2 sleeps,
\* raising nothing.
C2_FailTwiceThenSucceed ==
    retry.max_retries >= DefaultMaxRetries =>
        /\ (Len(retry.calls) = 2 /\ retry.calls = <<"raise", "raise">>) =>
              (retry.pc \in {"sleeping", "loop"} /\ retry.raised = PyNone)
        /\ (Len(retry.calls) >= 3 /\ SubSeq(retry.calls, 1, 3) = <<"raise", "raise", "return">>) =>
              /\ retry.pc = "returned"
              /\ retry.result = PyInt(3)
              /\ Len(retry.calls) = 3
              /\ Len(retry.sleeps) = 2
              /\ retry.raised = PyNone

C2_Witness ==
    /\ retry.max_retries = 3
    /\ retry.calls = <<"raise", "raise", "return">>
    /\ retry.pc = "returned"
    /\ Len(retry.sleeps) = 2

-----------------------------------------------------------------------------
(* Properties of the HTTP API, checked under Spec.  They are stated on the   *)
(* request being answered and its response; what they say of the connectors  *)
(* uses only what does not depend on the clock, which may tick in between.   *)

KalshiListing == KalshiGetMarkets(kalshi_connector["markets"], sample_file, clock)
PolymarketListing == PolymarketGetMarkets(polymarket_connector["markets"], sample_file, clock)

HasId(markets, market_id) == \E i \in 1..Len(markets) : markets[i]["id"] = market_id

IsLookup == request.endpoint \in {"get_market", "get_market_price"}

\* C3: GET /markets/{id} and GET /markets/{id}/price call the Kalshi connector
\* first; the Polymarket connector is called, second and last, only if Kalshi
\* has no record with the id; if Kalshi has one the answer is 200 and, for the
\* detail, the record is the one tagged "kalshi".
C3_KalshiFirst ==
    IsLookup =>
        /\ Len(calls) \in {1, 2}
        /\ calls[1] = Call("kalshi", request.endpoint)
        /\ Len(calls) = 2 =>
              /\ calls[2] = Call("polymarket", request.endpoint)
              /\ ~HasId(KalshiListing, request.market_id)
        /\ HasId(KalshiListing, request.market_id) =>
              /\ calls = <<Call("kalshi", request.endpoint)>>
              /\ response.status = 200
              /\ request.endpoint = "get_market" =>
                    /\ response.body.data.val["provider"] = "kalshi"
                    /\ response.body.data.val["id"] = request.market_id

\* Kalshi serves the shared sample file, so it answers for a "POLY-" id too
C3_Witness ==
    /\ request.endpoint = "get_market"
    /\ request.market_id = "POLY-CRYPTO2024"
    /\ HasId(KalshiListing, "POLY-CRYPTO2024")
    /\ HasId(PolymarketListing, "POLY-CRYPTO2024")
    /\ calls = <<Call("kalshi", "get_market")>>
    /\ response.status = 200

\* C4: GET /markets/{id} and GET /markets/{id}/price answer 404 exactly when
\* neither connector has a market with the id, and 200 otherwise; the 404 is
\* never turned into a 500.
C4_NotFoundExactly ==
    IsLookup =>
        /\ response.status = 404 <=>
              ~(HasId(KalshiListing, request.market_id)
                \/ HasId(PolymarketListing, request.market_id))
        /\ response.status = 200 <=>
              (HasId(KalshiListing, request.market_id)
               \/ HasId(PolymarketListing, request.market_id))
        /\ response.status # 500

C4_Witness ==
    /\ request.endpoint = "get_market_price"
    /\ request.market_id = "NONEXISTENT"
    /\ Len(PolymarketListing) > 0
    /\ response.status = 404
    /\ calls = <<Call("kalshi", "get_market_price"), Call("polymarket", "get_market_price")>>

\* the provider filter of a listing request, lower-cased ("" when absent)
ProviderFilter ==
    IF request.endpoint = "get_markets" /\ Truthy(request.provider)
    THEN Lower(request.provider.val) ELSE ""

\* C5: GET /markets with provider=kalshi or provider=polymarket, in any letter
\* case, calls only that connector's get_markets, and every record of a 200
\* answer carries that provider, whatever provider the raw records carry.
C5_ProviderFilter ==
    ProviderFilter \in {"kalshi", "polymarket"} =>
        /\ calls = <<Call(ProviderFilter, "get_markets")>>
        /\ response.status = 200 =>
              \A i \in 1..Len(response.body.data.val) :
                  response.body.data.val[i]["provider"] = ProviderFilter

\* "POLY-Q" is a raw record whose provider is "other"
C5_Witness ==
    /\ request.endpoint = "get_markets"
    /\ request.provider = PyStr("KALSHI")
    /\ response.status = 200
    /\ HasId(response.body.data.val, "POLY-Q")
    /\ HasId(response.body.data.val, "KALSHI-PRES2024")

\* the connector a sync request addresses ("" if neither)
SyncProvider ==
    IF request.endpoint = "sync" /\ Lower(request.provider) \in {"kalshi", "polymarket"}
    THEN Lower(request.provider) ELSE ""

SyncMockMode ==
    \/ SyncProvider = "kalshi" /\ kalshi_connector["ingest"].mock_mode
    \/ SyncProvider = "polymarket" /\ polymarket_connector["ingest"].mock_mode

SyncListing ==
    IF SyncProvider = "kalshi"
    THEN KalshiGetMarkets(kalshi_connector["ingest"], sample_file, clock)
    ELSE PolymarketGetMarkets(polymarket_connector["ingest"], sample_file, clock)

\* C6: in mock mode POST /ingest/{provider}/sync for kalshi and polymarket
\* answers 200 with data.provider the provider, data.status "success" and
\* data.markets_synced a non-negative integer, the number of markets the
\* connector's get_markets returns.
C6_MockSync ==
    SyncMockMode =>
        /\ response.status = 200
        /\ response.body.data.val["provider"] = SyncProvider
        /\ response.body.data.val["status"] = "success"
        /\ response.body.data.val["markets_synced"] \in Nat
        /\ response.body.data.val["markets_synced"] = Len(SyncListing)

C6_Witness ==
    /\ SyncMockMode
    /\ request.provider = "Kalshi"
    /\ response.status = 200
    /\ response.body.data.val["markets_synced"] = 3

\* C7: POST /ingest/{provider}/sync answers 400 exactly when the lower-cased
\* provider is neither "kalshi" nor "polymarket"; then no sync_data was called,
\* and the 400 is never turned into a 500.
C7_UnknownProvider ==
    request.endpoint = "sync" =>
        /\ response.status = 400 <=> Lower(request.provider) \notin {"kalshi", "polymarket"}
        /\ response.status = 400 => calls = <<>>
        /\ response.status # 500

C7_Witness ==
    /\ request.endpoint = "sync"
    /\ request.provider = "OTHER"
    /\ response.status = 400
    /\ calls = <<>>

\* the value of a query parameter after Query(default)
Requested(given, default) == IF given = PyNone THEN default ELSE given.val

\* C8: every 200 answer of /orderbook has the requested depth (10 if none) in
\* meta.depth, of /events the requested limit (100 if none) in meta.limit,
\* of /timeseries the requested interval ("1h" if none) in meta.interval.
C8_ParamsEchoed ==
    response.status = 200 =>
        /\ request.endpoint = "get_market_orderbook" =>
              response.body.meta.val["depth"] = Requested(request.depth, 10)
        /\ request.endpoint = "get_market_events" =>
              response.body.meta.val["limit"] = Requested(request.limit, 100)
        /\ request.endpoint = "get_market_timeseries" =>
              response.body.meta.val["interval"] = Requested(request.interval, "1h")

C8_Witness ==
    /\ request.endpoint = "get_market_orderbook"
    /\ request.depth = PyInt(5)
    /\ response.status = 200
    /\ response.body.meta.val["depth"] = 5

\* the unfiltered listing GET /markets returns; filters only remove records
Listed ==
    FetchMarkets(kalshi_connector["markets"], polymarket_connector["markets"],
                 sample_file, clock, PyNone)

C10_Envelope ==
    /\ response.status = 200 =>
          /\ DOMAIN response.body = {"ok", "meta", "data"}
          /\ response.body.ok = TRUE
          /\ response.body.meta.py = "dict"
    /\ \A ok \in BOOLEAN :
          /\ create_envelope(PyNone, ok, PyNone).meta = PyDict(EmptyDict)
          /\ MarketsCreateEnvelope(PyNone, ok, PyNone).meta = PyDict(EmptyDict)
          /\ IngestCreateEnvelope(PyNone, ok, PyNone).meta = PyDict(EmptyDict)

C10_Witness ==
    /\ request.endpoint = "get_market_events"
    /\ response.status = 200
    /\ response.body.data.py = "list"
    /\ DOMAIN response.body = {"ok", "meta", "data"}

\* C11: every 404 answer, for a path that matches no route as for a record a
\* market handler did not find, is the envelope with ok false, data null and
\* a meta object that has an error field.
C11_NotFoundEnvelope ==
    response.status = 404 =>
        /\ DOMAIN response.body = {"ok", "meta", "data"}
        /\ response.body.ok = FALSE
        /\ response.body.data = PyNone
        /\ response.body.meta.py = "dict"
        /\ "error" \in DOMAIN response.body.meta.val

C11_Witness ==
    /\ request.endpoint = "unrouted"
    /\ request.path = "/api/v1/nonexistent"
    /\ response.status = 404
    /\ response.body.ok = FALSE
    /\ "error" \in DOMAIN response.body.meta.val

\* a market handler's own 404 takes the same form
C11_HandlerWitness ==
    /\ request.endpoint = "get_market"
    /\ request.market_id = "NONEXISTENT"
    /\ response.status = 404
    /\ response.body.data = PyNone

(* Properties of the handlers' except clauses, checked under SpecExcept *)

BodyRaisedOther == request # NoRequest /\ request.body.kind = "Exception"

SampleUnusable ==
    \/ sample_file = FileInvalid
    \/ /\ sample_file.state = "json"
       /\ \E i \in 1..Len(MarketsOf(sample_file.data)) :
             MarketsOf(sample_file.data)[i].py # "dict"

\* what get_markets, get_market and get_market_price return when the data fails
MarketsMethodsGiveUp ==
    /\ KalshiListing = <<>>
    /\ PolymarketListing = <<>>
    /\ \A id \in MarketIds :
          /\ KalshiGetMarket(kalshi_connector["markets"], sample_file, clock, id) = PyNone
          /\ KalshiGetMarketPrice(kalshi_connector["markets"], sample_file, clock, id) = PyNone
          /\ PolymarketGetMarket(polymarket_connector["markets"], sample_file, clock, id) = PyNone
          /\ PolymarketGetMarketPrice(polymarket_connector["markets"], sample_file, clock, id)
                = PyNone

IsSet(name) == env[name] # PyNone /\ env[name] # PyStr("")

\* C14: in both modules the Kalshi connector is in mock mode unless
\* KALSHI_API_KEY and KALSHI_USER_ID are both set to non-empty values, and the
\* Polymarket connector unless POLYMARKET_API_KEY is; an undefined variable and
\* an empty one both count as absent.
C14_MockMode ==
    \A module \in {"markets", "ingest"} :
        /\ kalshi_connector[module].mock_mode
              <=> ~(IsSet("KALSHI_API_KEY") /\ IsSet("KALSHI_USER_ID"))
        /\ polymarket_connector[module].mock_mode <=> ~IsSet("POLYMARKET_API_KEY")

\* a key with an empty user id: Kalshi serves its mock order book
C14_Witness ==
    /\ env["KALSHI_API_KEY"] = PyStr("secret")
    /\ env["KALSHI_USER_ID"] = PyStr("")
    /\ env["POLYMARKET_API_KEY"] = PyStr("secret")
    /\ kalshi_connector["markets"].mock_mode
    /\ ~polymarket_connector["markets"].mock_mode
    /\ request.endpoint = "get_market_orderbook"
    /\ calls = <<Call("kalshi", "get_market_orderbook")>>
    /\ response.status = 200

\* a listing request for one provider, without status or q filter
PlainListingOf(provider) ==
    /\ ProviderFilter = provider
    /\ ~Truthy(request.status)
    /\ ~Truthy(request.q)
    /\ response.status = 200

\* C15: mock-mode serving is deterministic: the list get_markets returned for
\* a listing request equals the list the same connector's get_markets returns
\* when called again, later, against the unchanged sample dataset.
C15_Deterministic ==
    /\ (PlainListingOf("kalshi") /\ kalshi_connector["markets"].mock_mode) =>
          response.body.data.val = KalshiListing
    /\ (PlainListingOf("polymarket") /\ polymarket_connector["markets"].mock_mode) =>
          response.body.data.val = PolymarketListing

\* the records of the dataset the connectors serve: the file's, or the two
\* inline fallbacks' when the file is missing
DatasetRecords ==
    IF sample_file = FileMissing
    THEN MarketsOf(KalshiFallback) \o MarketsOf(PolymarketFallback)
    ELSE IF sample_file.state = "json" THEN MarketsOf(sample_file.data)
    ELSE <<>>

\* the dataset is the one the repository provides: the file gen_sample.py
\* writes, or no file and so the inline fallbacks; each record of it names one
\* of the two providers and no id occurs twice
ShippedDataset ==
    sample_file \in {FileMissing, FileJson([markets |-> generate_sample_markets])}

\* the dataset says that market_id is a market of provider
BelongsTo(market_id, provider) ==
    \E i \in 1..Len(DatasetRecords) :
        /\ Get(DatasetRecords[i].val, "id", "") = market_id
        /\ Get(DatasetRecords[i].val, "provider", "") = provider

\* the market records of the answer to a listing or detail request
ReturnedRecords ==
    IF response.status # 200 THEN <<>>
    ELSE IF request.endpoint = "get_markets" THEN response.body.data.val
    ELSE IF request.endpoint = "get_market" THEN <<response.body.data.val>>
    ELSE <<>>

\* C16: every market record the listing or the detail lookup returns is
\* tagged "kalshi" or "polymarket", and the tag is the provider the record
\* has in the dataset.
C16_ProviderIsSource ==
    ShippedDataset =>
        \A i \in 1..Len(ReturnedRecords) :
            /\ ReturnedRecords[i]["provider"] \in {"kalshi", "polymarket"}
            /\ BelongsTo(ReturnedRecords[i]["id"], ReturnedRecords[i]["provider"])

\* C17: in the unfiltered listing no id appears in two records with different
\* provider tags, with the shared sample file as with the inline fallbacks.
C17_IdOneProvider ==
    (ShippedDataset /\ request.endpoint = "get_markets" /\ ProviderFilter = ""
     /\ response.status = 200 /\ ~Truthy(request.status) /\ ~Truthy(request.q)) =>
        \A i, j \in 1..Len(response.body.data.val) :
            response.body.data.val[i]["id"] = response.body.data.val[j]["id"] =>
                response.body.data.val[i]["provider"] = response.body.data.val[j]["provider"]

\* C19: the timeseries, orderbook and events routes answer 404 for an id that
\* is the id of no market of either provider, in mock as in live mode.
C19_UnknownId404 ==
    (request.endpoint \in {"get_market_timeseries", "get_market_orderbook",
                           "get_market_events"}
     /\ ~HasId(KalshiListing, request.market_id)
     /\ ~HasId(PolymarketListing, request.market_id)) =>
        response.status = 404

(* Properties of normalize_market, checked under SpecNormalize *)

PolymarketNormalized ==
    /\ normalize.self = "polymarket"
    /\ normalize.pc = "done"
    /\ normalize.raw_market.py = "dict"

HasKey(key) == key \in DOMAIN normalize.raw_market.val

\* the raw record's value under a key it has
Raw(key) == normalize.raw_market.val[key]

C18_FallbackWitness ==
    /\ PolymarketNormalized
    /\ DOMAIN normalize.raw_market.val = {"question", "end_date", "volume", "tags"}
    /\ normalize.result.val["title"] = "Will ETH flip BTC?"
    /\ normalize.result.val["close_date"] = "2025-01-31T00:00:00Z"
    /\ normalize.result.val["total_volume"] = 900
    /\ normalize.result.val["category"] = "defi"

(* Shared state, checked under Spec *)

\* what the handler of a request does when it runs alone, on connectors fresh
\* from their constructors, at the current tick
Alone(req) ==
    CASE req.endpoint = "health" -> HealthCheck
      [] req.endpoint = "unrouted" -> NoRoute
      [] req.endpoint = "get_markets" ->
            GetMarkets(KalshiConnector(env), PolymarketConnector(env), sample_file, clock,
                       req.provider, req.status, req.q)
      [] req.endpoint = "get_market" ->
            GetMarket(KalshiConnector(env), PolymarketConnector(env), sample_file, clock,
                      req.market_id)
      [] req.endpoint = "get_market_price" ->
            GetMarketPrice(KalshiConnector(env), PolymarketConnector(env), sample_file, clock,
                           req.market_id)
      [] req.endpoint = "get_market_timeseries" ->
            GetMarketTimeseries(KalshiConnector(env), PolymarketConnector(env), clock,
                                req.market_id, req.start, req.end,
                                Requested(req.interval, "1h"))
      [] req.endpoint = "get_market_orderbook" ->
            GetMarketOrderbook(KalshiConnector(env), PolymarketConnector(env), clock,
                               req.market_id, Requested(req.depth, 10))
      [] req.endpoint = "get_market_events" ->
            GetMarketEvents(KalshiConnector(env), PolymarketConnector(env), clock,
                            req.market_id, req.since, Requested(req.limit, 100))
      [] req.endpoint = "sync" ->
            SyncProviderData(KalshiConnector(env), PolymarketConnector(env), sample_file,
                             clock, req.provider)

\* the part of a response that holds no timestamp: the status and the keys
Shape(resp) == [status |-> resp.status, keys |-> DOMAIN resp.body]

-----------------------------------------------------------------------------
(* The connector calls of one request *)

MarketsEndpoints ==
    {"get_markets", "get_market", "get_market_price", "get_market_timeseries",
     "get_market_orderbook", "get_market_events"}

\* no call of the Polymarket connector precedes a call of the Kalshi connector
KalshiBeforePolymarket ==
    \A i, j \in 1..Len(calls) :
        (i < j) => ~(calls[i].connector = "polymarket" /\ calls[j].connector = "kalshi")

\* the records of a 200 listing without provider filter: those tagged "kalshi"
\* all precede those tagged "polymarket"
KalshiRecordsFirst ==
    (request.endpoint = "get_markets" /\ ~Truthy(request.provider)
     /\ response.status = 200) =>
        \A i, j \in 1..Len(response.body.data.val) :
            (i < j) => ~(response.body.data.val[i]["provider"] = "polymarket"
                         /\ response.body.data.val[j]["provider"] = "kalshi")

C21_NoCallWitness ==
    /\ request.endpoint = "get_markets"
    /\ request.provider = PyStr("other")
    /\ calls = <<>>
    /\ response.status = 200

-----------------------------------------------------------------------------
(* The filters of GET /markets *)

\* what the listing request fetched, had it been served at tick t
FetchedAt(t) ==
    FetchMarkets(kalshi_connector["markets"], polymarket_connector["markets"],
                 sample_file, t, request.provider)

\* the record satisfies the filters of the request that are given
Kept(m) ==
    /\ Truthy(request.status) =>
          /\ m["status"] # NoneStr
          /\ Lower(m["status"]) = Lower(request.status.val)
    /\ Truthy(request.q) =>
          /\ m["title"] # NoneStr
          /\ Contains(Lower(m["title"]), Lower(request.q.val))

\* C22: GET /markets answers with exactly the fetched markets whose status
\* equals the given status and whose title contains the given q, ignoring
\* letter case, in the order they were fetched, and meta.total is their number.
C22_FilterExact ==
    request.endpoint = "get_markets" =>
        /\ response.status = 200
        /\ \E t \in 0..MaxClock :
              response.body.data = PyList(SelectSeq(FetchedAt(t), Kept))
        /\ response.body.meta.val["total"] = Len(response.body.data.val)

\* the same, for the requests that do not meet a null status or title
C22_FilterExactWhenAnswered ==
    (request.endpoint = "get_markets" /\ response.status = 200) =>
        /\ \E t \in 0..MaxClock :
              response.body.data = PyList(SelectSeq(FetchedAt(t), Kept))
        /\ response.body.meta.val["total"] = Len(response.body.data.val)

C22_FilteredState ==
    /\ request.endpoint = "get_markets"
    /\ request.status = PyStr("CLOSED")
    /\ request.q = PyNone
    /\ response.status = 200
    /\ Len(response.body.data.val) = 2
    /\ Len(FetchedAt(0)) = 4

-----------------------------------------------------------------------------
(* An unknown provider name *)

\* the listing request names a provider that is neither connector
UnknownListingProvider ==
    /\ request.endpoint = "get_markets"
    /\ ProviderFilter \notin {"", "kalshi", "polymarket"}

\* C23: GET /markets with a provider that is neither "kalshi" nor
\* "polymarket", ignoring letter case, is answered 400, as the sync endpoint
\* answers an unknown provider name.
C23_UnknownProvider400 ==
    UnknownListingProvider => response.status = 400

\* what the handler does instead: no connector is asked, the answer is 200
\* with the empty list and the unknown name echoed in meta.providers
C23_UnknownProviderEmpty ==
    UnknownListingProvider =>
        /\ calls = <<>>
        /\ response.status = 200
        /\ response.body.data = PyList(<<>>)
        /\ response.body.meta.val["total"] = 0
        /\ response.body.meta.val["providers"] = <<request.provider.val>>

-----------------------------------------------------------------------------
(* The mock timeseries *)

\* series is an ordered hourly series for market_id and interval that ends at
\* tick t; prices are in thousandths
OrderedSeries(series, market_id, interval, t) ==
    /\ series.py = "dict"
    /\ series.val.market_id = market_id
    /\ series.val.interval = interval
    /\ Len(series.val.data_points) = 24
    /\ series.val.data_points[24].timestamp = [tick |-> t, hours |-> 0]
    /\ \A n \in 1..23 :
          /\ series.val.data_points[n].timestamp.tick = t
          /\ series.val.data_points[n + 1].timestamp.hours
                = series.val.data_points[n].timestamp.hours + 1
          /\ series.val.data_points[n].price <= series.val.data_points[n + 1].price
    /\ \A n \in 1..24 :
          /\ series.val.data_points[n].price >= 0
          /\ series.val.data_points[n].price <= 1000

MockKalshi == [kalshi_connector["markets"] EXCEPT !.mock_mode = TRUE]
MockPolymarket == [polymarket_connector["markets"] EXCEPT !.mock_mode = TRUE]

\* C24: the mock timeseries of either connector has exactly 24 points, one
\* per hour, strictly increasing in time and ending at the time of the call,
\* with non-decreasing prices between 0 and 1, for the requested market id and
\* interval; so has the series a 200 answer of /timeseries carries.
C24_OrderedSeries ==
    /\ request.endpoint = "get_market_timeseries" =>
          /\ OrderedSeries(KalshiGetMarketTimeseries(
                               MockKalshi, clock, request.market_id, PyNone, PyNone,
                               Requested(request.interval, "1h")),
                           request.market_id, Requested(request.interval, "1h"), clock)
          /\ OrderedSeries(PolymarketGetMarketTimeseries(
                               MockPolymarket, clock, request.market_id, PyNone, PyNone,
                               Requested(request.interval, "1h")),
                           request.market_id, Requested(request.interval, "1h"), clock)
    /\ (request.endpoint = "get_market_timeseries" /\ response.status = 200) =>
          \E t \in 0..clock :
              OrderedSeries(response.body.data, request.market_id,
                            Requested(request.interval, "1h"), t)

\* the Polymarket series is served: Kalshi has credentials, Polymarket none
C24_Witness ==
    /\ request.endpoint = "get_market_timeseries"
    /\ request.interval = PyStr("1d")
    /\ response.status = 200
    /\ calls = <<Call("kalshi", "get_market_timeseries"),
                 Call("polymarket", "get_market_timeseries")>>
    /\ response.body.data.val.data_points[1].price = 420
    /\ response.body.data.val.data_points[24].price = 466
    /\ response.body.data.val.data_points[24].timestamp.tick = 1

-----------------------------------------------------------------------------
(* Termination of async_retry, checked under SpecRetryFair *)

RetryDone == retry.pc \in {"returned", "raised"}

\* the calls and sleeps made so far are within the bounds, and they alternate
RetryWithinBounds ==
    /\ Len(retry.calls) <= retry.max_retries
    /\ Len(retry.sleeps) <= retry.max_retries - 1
    \* no call after the first success
    /\ \A k \in 1..Len(retry.calls) : retry.calls[k] = "return" => k = Len(retry.calls)
    \* a sleep follows a failed attempt only, and an attempt follows every sleep
    /\ \A k \in 1..Len(retry.sleeps) : retry.calls[k] = "raise"
    /\ retry.pc = "sleeping" =>
          (Len(retry.sleeps) = Len(retry.calls) /\ Len(retry.calls) < retry.max_retries)
    /\ retry.pc = "loop" => Len(retry.sleeps) = Len(retry.calls)
    \* at the end one sleep fewer than calls: none after the final attempt
    /\ RetryDone => Len(retry.sleeps) = Len(retry.calls) - 1

\* C25: for every max_retries >= 1 and every sequence of successes and failures
\* of func, async_retry ends after at most max_retries calls and at most
\* max_retries - 1 sleeps, with no call after the first success, sleeps only
\* between a failed attempt and the next one, and none after the last attempt.
C25_Terminates ==
    /\ [](retry.max_retries >= 1 => RetryWithinBounds)
    /\ (retry.max_retries >= 1) => <>RetryDone

\* every attempt failed: as many calls as max_retries, one sleep fewer
C25_Witness ==
    /\ retry.max_retries = 4
    /\ retry.pc = "raised"
    /\ retry.calls = <<"raise", "raise", "raise", "raise">>
    /\ Len(retry.sleeps) = 3

-----------------------------------------------------------------------------
(* sync_data and a failed data load *)

\* C26: sync_data of either connector never reports status "error": when the
\* data cannot be loaded or normalized get_markets returns the empty list, and
\* the sync of kalshi and of polymarket is answered 200 with status "success"
\* and markets_synced = 0.
C26_SyncNeverError ==
    SyncProvider \in {"kalshi", "polymarket"} =>
        /\ response.status = 200
        /\ response.body.data.val["status"] = "success"
        /\ "error" \notin DOMAIN response.body.data.val
        /\ SampleUnusable =>
              /\ SyncListing = <<>>
              /\ response.body.data.val["markets_synced"] = 0

\* the sample file is not JSON and Polymarket is asked to sync
C26_Witness ==
    /\ request.endpoint = "sync"
    /\ request.provider = "POLYMARKET"
    /\ sample_file = FileInvalid
    /\ calls = <<Call("polymarket", "sync_data")>>
    /\ response.status = 200
    /\ response.body.data.val["status"] = "success"
    /\ response.body.data.val["markets_synced"] = 0

-----------------------------------------------------------------------------
(* Timeseries, order book and events by connector mode *)

IsMockEndpoint ==
    request.endpoint \in {"get_market_timeseries", "get_market_orderbook", "get_market_events"}

\* what the Kalshi connector of the markets routes returns for the request, called at tick t
KalshiMockData(t) ==
    CASE request.endpoint = "get_market_timeseries" ->
            KalshiGetMarketTimeseries(kalshi_connector["markets"], t, request.market_id,
                                      request.start, request.end,
                                      Requested(request.interval, "1h"))
      [] request.endpoint = "get_market_orderbook" ->
            KalshiGetMarketOrderbook(kalshi_connector["markets"], t, request.market_id,
                                     Requested(request.depth, 10))
      [] request.endpoint = "get_market_events" ->
            KalshiGetMarketEvents(kalshi_connector["markets"], t, request.market_id,
                                  request.since, Requested(request.limit, 100))

\* C27: with the Kalshi connector in mock mode, /timeseries, /orderbook and
\* /events call the Kalshi connector only, for every market id, and answer 200
\* with the Kalshi connector's mock data.
C27_KalshiMockShadows ==
    (IsMockEndpoint /\ kalshi_connector["markets"].mock_mode) =>
        /\ calls = <<Call("kalshi", request.endpoint)>>
        /\ response.status = 200
        /\ \E t \in 0..clock : response.body.data = KalshiMockData(t)

\* the sample file is missing, so only Polymarket lists "POLY-CRYPTO2024"
C27_Witness ==
    /\ request.endpoint = "get_market_orderbook"
    /\ request.market_id = "POLY-CRYPTO2024"
    /\ kalshi_connector["markets"].mock_mode
    /\ polymarket_connector["markets"].mock_mode
    /\ ~HasId(KalshiListing, "POLY-CRYPTO2024")
    /\ HasId(PolymarketListing, "POLY-CRYPTO2024")
    /\ calls = <<Call("kalshi", "get_market_orderbook")>>
    /\ response.status = 200
    /\ response.body.data.val.bids[1].price = 640

\* C28: with credentials for both connectors (neither in mock mode)
\* /timeseries, /orderbook and /events ask Kalshi, then Polymarket, and answer
\* 404 for every market id, also for an id that GET /markets lists.
C28_NoDataOutsideMock ==
    (IsMockEndpoint /\ ~kalshi_connector["markets"].mock_mode
     /\ ~polymarket_connector["markets"].mock_mode) =>
        /\ calls = <<Call("kalshi", request.endpoint), Call("polymarket", request.endpoint)>>
        /\ ~Truthy(KalshiMockData(clock))
        /\ response.status = 404
        /\ response.body.ok = FALSE

\* the id is one GET /markets lists and GET /markets/{id} finds
C28_Witness ==
    /\ request.endpoint = "get_market_timeseries"
    /\ request.market_id = "KALSHI-PRES2024"
    /\ env["KALSHI_API_KEY"] = PyStr("secret")
    /\ env["KALSHI_USER_ID"] = PyStr("secret")
    /\ env["POLYMARKET_API_KEY"] = PyStr("secret")
    /\ HasId(Listed, "KALSHI-PRES2024")
    /\ Truthy(GetMarket(kalshi_connector["markets"], polymarket_connector["markets"],
                        sample_file, clock, "KALSHI-PRES2024").out.value.data)
    /\ response.status = 404

-----------------------------------------------------------------------------
(* Credentials make no difference to the sample-backed methods *)

IsSampleBacked ==
    request.endpoint \in {"get_markets", "get_market", "get_market_price", "sync"}

MockKalshiIngest == [kalshi_connector["ingest"] EXCEPT !.mock_mode = TRUE]
MockPolymarketIngest == [polymarket_connector["ingest"] EXCEPT !.mock_mode = TRUE]

\* the answer to the request at tick t had both connectors been in mock mode
InMockMode(t) ==
    CASE request.endpoint = "get_markets" ->
            GetMarkets(MockKalshi, MockPolymarket, sample_file, t,
                       request.provider, request.status, request.q)
      [] request.endpoint = "get_market" ->
            GetMarket(MockKalshi, MockPolymarket, sample_file, t, request.market_id)
      [] request.endpoint = "get_market_price" ->
            GetMarketPrice(MockKalshi, MockPolymarket, sample_file, t, request.market_id)
      [] request.endpoint = "sync" ->
            SyncProviderData(MockKalshiIngest, MockPolymarketIngest, sample_file, t,
                             request.provider)

\* C29: no request enters async_retry (the only caller of the network is
\* _make_request, which nothing calls), and the listing, the detail, the price
\* and the sync make the same calls and give the same answer with credentials
\* set as in mock mode.
C29_SameWithCredentials ==
    /\ retry = RetryIdle
    /\ IsSampleBacked =>
          \E t \in 0..clock :
              /\ calls = InMockMode(t).calls
              /\ response = Render(InMockMode(t).out)

\* all credentials are set and the listing still serves the sample file
C29_Witness ==
    /\ request.endpoint = "get_markets"
    /\ request.provider = PyStr("kalshi")
    /\ ~kalshi_connector["markets"].mock_mode
    /\ ~polymarket_connector["markets"].mock_mode
    /\ KalshiListing # <<>>
    /\ response.status = 200
    /\ response.body.data.val = KalshiGetMarkets(MockKalshi, sample_file, 0)
    /\ Len(response.body.data.val) = 3

-----------------------------------------------------------------------------
(* normalize_market on its own result, checked under SpecRenormalize *)

SchemaKeys ==
    {"id", "title", "description", "provider", "status", "category", "created_at",
     "close_date", "settle_date", "outcomes", "total_volume", "liquidity"}

Normalized == normalize.pc \in {"done", "again"}

\* tags[0] can be evaluated: tags is absent or falsy, or a list or a string
TagsIndexable ==
    \/ ~HasKey("tags")
    \/ ~Truthy(Raw("tags"))
    \/ Raw("tags").py \in {"list", "str"}

\* C30 as stated: on every dict record normalize_market of either connector
\* returns a record with exactly the twelve schema keys and the connector's
\* provider, and normalizing that record again returns an equal record.
C30_TotalIdempotent ==
    Normalized =>
        /\ normalize.result.ok
        /\ DOMAIN normalize.result.val = SchemaKeys
        /\ normalize.result.val["provider"] = normalize.self
        /\ normalize.pc = "again" => normalize.again = normalize.result

\* C30: normalize_market is idempotent wherever it returns, and returns a
\* record with exactly the twelve schema keys and the connector's provider;
\* Kalshi's returns on every dict record, Polymarket's on every dict record
\* except those whose tags value is a non-zero number or a non-empty object,
\* on which it raises, whether or not the record has a category.
C30_IdempotentWhereDefined ==
    Normalized =>
        /\ normalize.result.ok <=> (normalize.self = "kalshi" \/ TagsIndexable)
        /\ normalize.result.ok =>
              /\ DOMAIN normalize.result.val = SchemaKeys
              /\ normalize.result.val["provider"] = normalize.self
        /\ normalize.pc = "again" => normalize.again = normalize.result

\* a record without created_at, normalized at tick 0 and again at tick 1
C30_Witness ==
    /\ normalize.pc = "again"
    /\ normalize.self = "polymarket"
    /\ DOMAIN normalize.raw_market.val = {"question", "tags"}
    /\ normalize.result.val["created_at"] = IsoFormat(0)
    /\ normalize.result.val["category"] = "defi"
    /\ clock = 1
    /\ normalize.again = normalize.result

\* a record with a category whose tags value is a number
C30_RaisedWitness ==
    /\ normalize.pc = "done"
    /\ normalize.self = "polymarket"
    /\ HasKey("category")
    /\ HasKey("tags")
    /\ Raw("tags") = PyInt(7)
    /\ normalize.result = Raised("TypeError")

====
